---------------------------- MODULE Spec2Model ----------------------------
(***************************************************************************)
(* Model of the settling engine of src/network_settling.py (class          *)
(* NetworkSettling).  Probabilities are Python floats in the source; here   *)
(* they are exact rationals <<n, d>> in lowest terms with d > 0, so that    *)
(* "sums to 1" and "exactly 0.0" are decided exactly.                       *)
(***************************************************************************)
EXTENDS Integers, Sequences, FiniteSets, TLC

VARIABLES probabilities, clamped, iteration, is_converged,
          inhibition_strength, op, ret, exc, pre, network, result

\* the engine's fields, the last call (op), what it returned (ret) or raised
\* (exc), the engine as it was before that call (pre)
engine_vars == <<probabilities, clamped, iteration, is_converged,
                 inhibition_strength, op, ret, exc, pre>>

\* the engine's fields alone
fields == <<probabilities, clamped, iteration, is_converged,
            inhibition_strength>>

\* the module-level _network and the JSON text the last adapter call returned
host_vars == <<network, result>>

vars == <<probabilities, clamped, iteration, is_converged,
          inhibition_strength, op, ret, exc, pre, network, result>>

(* ------------------------------ bounds -------------------------------- *)

\* grid_size handed to the constructor
GridSize == 2

\* step() is not taken from a non-converged state once iteration = MaxIter
MaxIter == 2

(* ------------------------- rational arithmetic ------------------------ *)

RECURSIVE Gcd(_, _)
Gcd(a, b) == IF b = 0 THEN a ELSE Gcd(b, a % b)

IAbs(a) == IF a < 0 THEN -a ELSE a

\* the rational n/d (d # 0) in lowest terms with a positive denominator
Rat(n, d) ==
    LET g == Gcd(IAbs(n), IAbs(d))
        s == IF d < 0 THEN -1 ELSE 1
    IN  <<(s * n) \div g, (s * d) \div g>>

Zero == <<0, 1>>
One  == <<1, 1>>

RAdd(x, y) == Rat(x[1] * y[2] + y[1] * x[2], x[2] * y[2])
RSub(x, y) == Rat(x[1] * y[2] - y[1] * x[2], x[2] * y[2])
RMul(x, y) == Rat(x[1] * y[1], x[2] * y[2])
RDiv(x, y) == Rat(x[1] * y[2], x[2] * y[1])
RLt(x, y)  == x[1] * y[2] < y[1] * x[2]
RMax(x, y) == IF RLt(x, y) THEN y ELSE x
RMin(x, y) == IF RLt(y, x) THEN y ELSE x
RAbs(x)    == <<IAbs(x[1]), x[2]>>

\* sum(probs) and max(probs) of a non-empty list, left to right
RECURSIVE SumTo(_, _)
SumTo(s, k) == IF k = 0 THEN Zero ELSE RAdd(SumTo(s, k - 1), s[k])

RSum(s) == SumTo(s, Len(s))

RECURSIVE MaxTo(_, _)
MaxTo(s, k) == IF k = 1 THEN s[1] ELSE RMax(MaxTo(s, k - 1), s[k])

RMaxOf(s) == MaxTo(s, Len(s))

(* ------------------------------- state -------------------------------- *)

Idx   == 0 .. (GridSize - 1)
Cells == Idx \X Idx

\* [x] * n
RECURSIVE Repeat(_, _)
Repeat(x, n) == IF n = 0 THEN <<>> ELSE Append(Repeat(x, n - 1), x)

\* [uniform_prob] * self.grid_size
Uniform == Repeat(Rat(1, GridSize), GridSize)

\* the position (1-based) that Python index i denotes in a list of length
\* grid_size, negative indices counting from the end; 0 when i is out of
\* range and the subscript raises IndexError
PyIndex(i) ==
    IF 0 <= i /\ i < GridSize THEN i + 1
    ELSE IF -GridSize <= i /\ i < 0 THEN GridSize + i + 1
    ELSE 0

\* one-hot list of set_clue: probs[value - 1] = 1.0
OneHot(value) == [Repeat(Zero, GridSize) EXCEPT ![PyIndex(value - 1)] = One]

\* self.convergence_threshold = 0.001
convergence_threshold == Rat(1, 1000)

\* self.inhibition_strength = 0.5
DefaultStrength == Rat(1, 2)

\* the engine object ("self") as the methods read it
Self ==
    [probabilities |-> probabilities, clamped |-> clamped,
     iteration |-> iteration, is_converged |-> is_converged,
     inhibition_strength |-> inhibition_strength]

\* return value None
None == <<>>

\* no exception left the call
NoException == "None"

(* ------------------------------ queries ------------------------------- *)

\* probs.index(max_prob) + 1: the lowest position holding the maximum
FirstIndexOf(s, m) ==
    CHOOSE i \in 1 .. Len(s) : s[i] = m /\ \A j \in 1 .. (i - 1) : s[j] # m

get_most_likely_value(self, row, col) ==
    LET probs    == self.probabilities[<<row, col>>]
        max_prob == RMaxOf(probs)
    IN  [value |-> FirstIndexOf(probs, max_prob), probability |-> max_prob]

\* variant of is_value_impossible that scans the row only
is_value_impossible_row_only(self, row, col, value_idx) ==
    \E c \in Idx :
        /\ c # col
        /\ <<row, c>> \in self.clamped
        /\ get_most_likely_value(self, row, c).value = value_idx + 1

\* variant of is_value_impossible that scans the column only
is_value_impossible_column_only(self, row, col, value_idx) ==
    \E r \in Idx :
        /\ r # row
        /\ <<r, col>> \in self.clamped
        /\ get_most_likely_value(self, r, col).value = value_idx + 1

is_value_impossible(self, row, col, value_idx) ==
    LET value == value_idx + 1
    IN  \/ \E c \in Idx :
              /\ c # col
              /\ <<row, c>> \in self.clamped
              /\ get_most_likely_value(self, row, c).value = value
        \/ \E r \in Idx :
              /\ r # row
              /\ <<r, col>> \in self.clamped
              /\ get_most_likely_value(self, r, col).value = value

\* <<total_inhibition, count>> after the row loop has seen columns 0 .. k-1
RECURSIVE RowLoop(_, _, _, _, _)
RowLoop(self, row, col, value_idx, k) ==
    IF k = 0 THEN <<Zero, 0>>
    ELSE LET acc == RowLoop(self, row, col, value_idx, k - 1)
             c   == k - 1
         IN  IF c # col /\ <<row, c>> \notin self.clamped
             THEN <<RAdd(acc[1], self.probabilities[<<row, c>>][value_idx + 1]),
                    acc[2] + 1>>
             ELSE acc

\* the same pair after the column loop has seen rows 0 .. k-1
RECURSIVE ColLoop(_, _, _, _, _)
ColLoop(self, row, col, value_idx, k) ==
    IF k = 0 THEN RowLoop(self, row, col, value_idx, GridSize)
    ELSE LET acc == ColLoop(self, row, col, value_idx, k - 1)
             r   == k - 1
         IN  IF r # row /\ <<r, col>> \notin self.clamped
             THEN <<RAdd(acc[1], self.probabilities[<<r, col>>][value_idx + 1]),
                    acc[2] + 1>>
             ELSE acc

\* variant of calculate_inhibition that returns the total, not the average
calculate_inhibition_undivided(self, row, col, value_idx) ==
    ColLoop(self, row, col, value_idx, GridSize)[1]

calculate_inhibition(self, row, col, value_idx) ==
    LET acc == ColLoop(self, row, col, value_idx, GridSize)
    IN  IF acc[2] > 0 THEN RDiv(acc[1], <<acc[2], 1>>) ELSE Zero

\* variant of normalize that returns the list undivided
normalize_undivided(probs) ==
    IF RSum(probs) = Zero
    THEN Repeat(Rat(1, GridSize), GridSize)
    ELSE probs

\* [p / total for p in probs], first k entries
RECURSIVE DivideTo(_, _, _)
DivideTo(probs, total, k) ==
    IF k = 0 THEN <<>>
    ELSE Append(DivideTo(probs, total, k - 1), RDiv(probs[k], total))

normalize(probs) ==
    LET total == RSum(probs)
    IN  IF total = Zero
        THEN Repeat(Rat(1, GridSize), GridSize)
        ELSE DivideTo(probs, total, Len(probs))

\* abs(new - old) for the first k pairs of zip(old_probs, new_probs)
RECURSIVE DiffsTo(_, _, _)
DiffsTo(old_probs, new_probs, k) ==
    IF k = 0 THEN <<>>
    ELSE Append(DiffsTo(old_probs, new_probs, k - 1),
                RAbs(RSub(new_probs[k], old_probs[k])))

\* variant of calculate_change that adds the slot differences up
calculate_change_summed(old_probs, new_probs) ==
    RSum(DiffsTo(old_probs, new_probs, Len(old_probs)))

calculate_change(old_probs, new_probs) ==
    RMaxOf(DiffsTo(old_probs, new_probs, Len(old_probs)))

\* variant of the inhibited entry that starts from the uniform weight
\* instead of the cell's current belief
apply_inhibition_from_uniform(current, inhibition, strength) ==
    RMax(Zero, RMul(Rat(1, GridSize), RSub(One, RMul(inhibition, strength))))

\* max(0.0, current_probs[value_idx] * (1 - inhibition * self.inhibition_strength))
apply_inhibition(current, inhibition, strength) ==
    RMax(Zero, RMul(current, RSub(One, RMul(inhibition, strength))))

\* new_probs after the loop has handled value_idx 0 .. k-1
RECURSIVE ValueLoop(_, _, _, _)
ValueLoop(self, row, col, k) ==
    IF k = 0 THEN <<>>
    ELSE LET value_idx == k - 1
             current_probs == self.probabilities[<<row, col>>]
         IN  Append(ValueLoop(self, row, col, k - 1),
                    IF is_value_impossible(self, row, col, value_idx)
                    THEN Zero
                    ELSE apply_inhibition(current_probs[value_idx + 1],
                                          calculate_inhibition(self, row, col,
                                                               value_idx),
                                          self.inhibition_strength))

calculate_new_probabilities(self, row, col) ==
    normalize(ValueLoop(self, row, col, GridSize))

(* ------------------------------ step() -------------------------------- *)

\* the k-th cell of "for row ... for col ...", k = 1 .. grid_size^2
CellAt(k) == <<(k - 1) \div GridSize, (k - 1) % GridSize>>

\* the pass in which cell c is handled
CellIndex(c) == c[1] * GridSize + c[2] + 1

\* variant of the loop body without the "skip clamped cells" branch
LoopBody_no_skip(self, new_probabilities, row, col) ==
    calculate_new_probabilities(self, row, col)

\* variant of the loop body that updates in place: the rule reads the
\* distributions already stored for this round
LoopBody_in_place(self, new_probabilities, row, col) ==
    IF <<row, col>> \in self.clamped
    THEN self.probabilities[<<row, col>>]
    ELSE calculate_new_probabilities(
             [self EXCEPT !.probabilities =
                 [x \in DOMAIN self.probabilities |->
                     IF x \in Cells /\ CellIndex(x) <= Len(new_probabilities)
                     THEN new_probabilities[CellIndex(x)]
                     ELSE self.probabilities[x]]],
             row, col)

\* what one pass of the loop body stores for cell (row, col); the update
\* rule reads self.probabilities, which the loop never writes
LoopBody(self, new_probabilities, row, col) ==
    IF <<row, col>> \in self.clamped
    THEN self.probabilities[<<row, col>>]
    ELSE calculate_new_probabilities(self, row, col)

\* [new_probabilities, max_change] after the first k passes of the loop;
\* new_probabilities lists the stored distributions in insertion order
RECURSIVE StepLoop(_, _)
StepLoop(self, k) ==
    IF k = 0 THEN [new_probabilities |-> <<>>, max_change |-> Zero]
    ELSE LET acc  == StepLoop(self, k - 1)
             cell == CellAt(k)
             new_probs == LoopBody(self, acc.new_probabilities, cell[1], cell[2])
             change == IF cell \in self.clamped
                       THEN Zero
                       ELSE calculate_change(self.probabilities[cell], new_probs)
         IN  [new_probabilities |-> Append(acc.new_probabilities, new_probs),
              max_change |-> RMax(acc.max_change, change)]

\* variant of the convergence test with the comparison turned round
BelowThreshold_flipped(max_change) == RLt(convergence_threshold, max_change)

\* max_change < self.convergence_threshold
BelowThreshold(max_change) == RLt(max_change, convergence_threshold)

\* variant of step without the early return
NeverConverged(self) == FALSE

\* if self.is_converged: return 0.0
AlreadyConverged(self) == self.is_converged

step ==
    /\ AlreadyConverged(Self) \/ iteration < MaxIter
    /\ pre' = Self
    /\ op' = [name |-> "step"]
    /\ IF AlreadyConverged(Self)
       THEN /\ ret' = Zero
            /\ exc' = NoException
            /\ UNCHANGED <<probabilities, clamped, iteration, is_converged,
                           inhibition_strength>>
       ELSE LET out == StepLoop(Self, GridSize * GridSize)
            IN  /\ probabilities' =
                      [c \in Cells |-> out.new_probabilities[CellIndex(c)]]
                /\ iteration' = iteration + 1
                /\ is_converged' = IF BelowThreshold(out.max_change)
                                    THEN TRUE ELSE is_converged
                /\ ret' = out.max_change
                /\ exc' = NoException
                /\ UNCHANGED <<clamped, inhibition_strength>>

(* --------------------------- other methods ---------------------------- *)

initialize ==
    /\ pre' = Self
    /\ op' = [name |-> "initialize"]
    /\ ret' = None
    /\ exc' = NoException
    /\ probabilities' =
          [c \in (DOMAIN probabilities) \cup Cells |->
              IF c \in Cells THEN Uniform ELSE probabilities[c]]
    /\ iteration' = 0
    /\ is_converged' = FALSE
    /\ UNCHANGED <<clamped, inhibition_strength>>

\* variant of set_clue that re-opens settling by clearing is_converged
set_clue_unlatched(row, col, value) ==
    /\ pre' = Self
    /\ op' = [name |-> "set_clue", row |-> row, col |-> col, value |-> value]
    /\ ret' = None
    /\ IF PyIndex(value - 1) = 0
       THEN /\ exc' = "IndexError"
            /\ UNCHANGED <<probabilities, clamped, is_converged>>
       ELSE /\ exc' = NoException
            /\ probabilities' =
                  [c \in (DOMAIN probabilities) \cup {<<row, col>>} |->
                      IF c = <<row, col>> THEN OneHot(value) ELSE probabilities[c]]
            /\ clamped' = clamped \cup {<<row, col>>}
            /\ is_converged' = FALSE
    /\ UNCHANGED <<iteration, inhibition_strength>>

set_clue(row, col, value) ==
    /\ pre' = Self
    /\ op' = [name |-> "set_clue", row |-> row, col |-> col, value |-> value]
    /\ ret' = None
    /\ IF PyIndex(value - 1) = 0
       THEN /\ exc' = "IndexError"
            /\ UNCHANGED <<probabilities, clamped>>
       ELSE /\ exc' = NoException
            /\ probabilities' =
                  [c \in (DOMAIN probabilities) \cup {<<row, col>>} |->
                      IF c = <<row, col>> THEN OneHot(value) ELSE probabilities[c]]
            /\ clamped' = clamped \cup {<<row, col>>}
    /\ UNCHANGED <<iteration, is_converged, inhibition_strength>>

remove_clue(row, col) ==
    /\ pre' = Self
    /\ op' = [name |-> "remove_clue", row |-> row, col |-> col]
    /\ ret' = None
    /\ exc' = NoException
    /\ clamped' = clamped \ {<<row, col>>}
    /\ probabilities' =
          [c \in (DOMAIN probabilities) \cup {<<row, col>>} |->
              IF c = <<row, col>> THEN Uniform ELSE probabilities[c]]
    /\ UNCHANGED <<iteration, is_converged, inhibition_strength>>

\* variant of reset without self.clamped.clear()
reset_keep_clamped ==
    /\ pre' = Self
    /\ op' = [name |-> "reset"]
    /\ ret' = None
    /\ exc' = NoException
    /\ probabilities' =
          [c \in (DOMAIN probabilities) \cup Cells |->
              IF c \in Cells THEN Uniform ELSE probabilities[c]]
    /\ iteration' = 0
    /\ is_converged' = FALSE
    /\ UNCHANGED <<clamped, inhibition_strength>>

\* variant of reset that also puts the strength back to its initial value
reset_restore_default ==
    /\ pre' = Self
    /\ op' = [name |-> "reset"]
    /\ ret' = None
    /\ exc' = NoException
    /\ clamped' = {}
    /\ probabilities' =
          [c \in (DOMAIN probabilities) \cup Cells |->
              IF c \in Cells THEN Uniform ELSE probabilities[c]]
    /\ iteration' = 0
    /\ is_converged' = FALSE
    /\ inhibition_strength' = DefaultStrength

reset ==
    /\ pre' = Self
    /\ op' = [name |-> "reset"]
    /\ ret' = None
    /\ exc' = NoException
    /\ clamped' = {}
    /\ probabilities' =
          [c \in (DOMAIN probabilities) \cup Cells |->
              IF c \in Cells THEN Uniform ELSE probabilities[c]]
    /\ iteration' = 0
    /\ is_converged' = FALSE
    /\ UNCHANGED inhibition_strength

\* variant of set_inhibition_strength that stores its argument as given
set_inhibition_strength_unclamped(strength) ==
    /\ pre' = Self
    /\ op' = [name |-> "set_inhibition_strength", strength |-> strength]
    /\ ret' = None
    /\ exc' = NoException
    /\ inhibition_strength' = strength
    /\ UNCHANGED <<probabilities, clamped, iteration, is_converged>>

set_inhibition_strength(strength) ==
    /\ pre' = Self
    /\ op' = [name |-> "set_inhibition_strength", strength |-> strength]
    /\ ret' = None
    /\ exc' = NoException
    /\ inhibition_strength' = RMax(Zero, RMin(One, strength))
    /\ UNCHANGED <<probabilities, clamped, iteration, is_converged>>

(* ------------------------- is_valid_solution -------------------------- *)

\* if result['probability'] < 0.9
ConfidenceThreshold == Rat(9, 10)

\* the row loop of is_valid_solution after columns 0 .. k-1 of `row`:
\* whether it has returned False, and the set `values`
RECURSIVE RowScan(_, _, _)
RowScan(self, row, k) ==
    IF k = 0 THEN [returned_false |-> FALSE, values |-> {}]
    ELSE LET acc == RowScan(self, row, k - 1)
             likely == get_most_likely_value(self, row, k - 1)
         IN  IF acc.returned_false THEN acc
             ELSE IF RLt(likely.probability, ConfidenceThreshold)
                  THEN [returned_false |-> TRUE, values |-> acc.values]
             ELSE IF likely.value \in acc.values
                  THEN [returned_false |-> TRUE, values |-> acc.values]
             ELSE [returned_false |-> FALSE,
                   values |-> acc.values \cup {likely.value}]

\* variant of the column loop that never reports a duplicate
ColScan_unchecked(self, col, k) == [returned_false |-> FALSE, values |-> {}]

\* the column loop after rows 0 .. k-1 of `col`
RECURSIVE ColScan(_, _, _)
ColScan(self, col, k) ==
    IF k = 0 THEN [returned_false |-> FALSE, values |-> {}]
    ELSE LET acc == ColScan(self, col, k - 1)
             likely == get_most_likely_value(self, k - 1, col)
         IN  IF acc.returned_false THEN acc
             ELSE IF likely.value \in acc.values
                  THEN [returned_false |-> TRUE, values |-> acc.values]
             ELSE [returned_false |-> FALSE,
                   values |-> acc.values \cup {likely.value}]

is_valid_solution(self) ==
    /\ \A row \in Idx : ~RowScan(self, row, GridSize).returned_false
    /\ \A col \in Idx : ~ColScan(self, col, GridSize).returned_false

\* a call of is_valid_solution()
is_valid_solution_call ==
    /\ pre' = Self
    /\ op' = [name |-> "is_valid_solution"]
    /\ ret' = is_valid_solution(Self)
    /\ exc' = NoException
    /\ UNCHANGED <<probabilities, clamped, iteration, is_converged,
                   inhibition_strength>>

(* --------------------------- specification ---------------------------- *)

\* the strengths the driver passes to set_inhibition_strength
StrengthInputs == {Rat(-1, 1), Rat(1, 2), Rat(3, 2)}

\* _network = None, and _network holding an engine
NotCreated == "None"
Created == "NetworkSettling"

\* no adapter function has returned anything
NoResult == [no_value |-> TRUE]

Init ==
    /\ probabilities = [c \in Cells |-> Uniform]
    /\ clamped = {}
    /\ iteration = 0
    /\ is_converged = FALSE
    /\ inhibition_strength = DefaultStrength
    /\ op = [name |-> "init"]
    /\ ret = None
    /\ exc = NoException
    /\ pre = Self
    /\ network = Created
    /\ result = NoResult

SetClue == \E row \in Idx, col \in Idx, value \in 1 .. GridSize :
              set_clue(row, col, value) /\ UNCHANGED host_vars

RemoveClue == \E row \in Idx, col \in Idx :
                 remove_clue(row, col) /\ UNCHANGED host_vars

SetInhibitionStrength == \E strength \in StrengthInputs :
                            set_inhibition_strength(strength) /\ UNCHANGED host_vars

Step == step /\ UNCHANGED host_vars

Reset == reset /\ UNCHANGED host_vars

Initialize == initialize /\ UNCHANGED host_vars

IsValidSolution == is_valid_solution_call /\ UNCHANGED host_vars

\* the methods called on the engine object itself
Next ==
    \/ SetClue
    \/ RemoveClue
    \/ Step
    \/ Reset
    \/ Initialize
    \/ SetInhibitionStrength
    \/ IsValidSolution

Spec == Init /\ [][Next]_vars


(* ------------------- the update rule, stated on sets ------------------ *)

\* the other cells of B's row and column
Peers(B) == {c \in Cells : c # B /\ (c[1] = B[1] \/ c[2] = B[2])}

\* the value a clamped cell A counts as holding in engine s
ClampedValue(s, A) == get_most_likely_value(s, A[1], A[2]).value

IsOneHot(probs) ==
    \E k \in 1 .. Len(probs) :
        /\ probs[k] = One
        /\ \A j \in 1 .. Len(probs) : j # k => probs[j] = Zero

RECURSIVE SetSum(_, _, _)
SetSum(s, S, v) ==
    IF S = {} THEN Zero
    ELSE LET c == CHOOSE x \in S : TRUE
         IN  RAdd(s.probabilities[c][v], SetSum(s, S \ {c}, v))

\* value v is held by a clamped peer of B
RuleImpossible(s, B, v) ==
    \E A \in Peers(B) \cap s.clamped : ClampedValue(s, A) = v

\* average belief in v of the non-clamped peers of B
RuleInhibition(s, B, v) ==
    LET U == Peers(B) \ s.clamped
    IN  IF U = {} THEN Zero
        ELSE RDiv(SetSum(s, U, v), <<Cardinality(U), 1>>)

\* B's entry for v before normalization
RuleUnnormalized(s, B, v) ==
    IF RuleImpossible(s, B, v) THEN Zero
    ELSE RMax(Zero, RMul(s.probabilities[B][v],
                         RSub(One, RMul(RuleInhibition(s, B, v),
                                        s.inhibition_strength))))

\* every entry of B is suppressed to zero: normalize falls back to uniform
AllSuppressed(s, B) == \A v \in 1 .. GridSize : RuleUnnormalized(s, B, v) = Zero

\* B's distribution after one round, from engine s alone
RuleNext(s, B) ==
    LET total == RSum([v \in 1 .. GridSize |-> RuleUnnormalized(s, B, v)])
    IN  IF AllSuppressed(s, B) THEN Uniform
        ELSE [v \in 1 .. GridSize |-> RDiv(RuleUnnormalized(s, B, v), total)]

\* a step() call that got past the "already converged" return
RealStep == op.name = "step" /\ ~pre.is_converged

(* ------------------------------ claims -------------------------------- *)

\* C1 (as claimed): whenever cell A is clamped with value X, every other cell
\* B of A's row or column that is not itself clamped to X has probability
\* exactly 0 for X after one step() call.
C1_Original ==
    op.name = "step" =>
        \A A \in pre.clamped : \A B \in Peers(A) :
            LET X == ClampedValue(pre, A)
            IN  ~(B \in pre.clamped /\ ClampedValue(pre, B) = X)
                    => probabilities[B][X] = Zero

\* C1 (amended): after a step() from a non-converged state, every non-clamped
\* cell B in the row or column of a clamped cell A has probability exactly 0
\* for A's value X, unless all of B's unnormalized entries were 0, in which
\* case B holds the uniform fallback.
C1_Impossibility ==
    RealStep =>
        \A A \in pre.clamped : \A B \in Peers(A) \ pre.clamped :
            LET X == ClampedValue(pre, A)
            IN  IF AllSuppressed(pre, B)
                THEN probabilities[B] = Uniform
                ELSE probabilities[B][X] = Zero

\* a real step has zeroed A's value in a non-clamped peer B of the same
\* column that kept other candidates
C1_Witness ==
    /\ RealStep
    /\ \E A \in pre.clamped : \E B \in Peers(A) \ pre.clamped :
          /\ B[2] = A[2]
          /\ ~AllSuppressed(pre, B)
          /\ pre.probabilities[B][ClampedValue(pre, A)] # Zero
          /\ probabilities[B][ClampedValue(pre, A)] = Zero

\* C2: the entries of every cell's distribution sum to exactly 1 in every
\* reachable state.
C2_Normalization ==
    \A c \in DOMAIN probabilities : RSum(probabilities[c]) = One

\* a second real step has left a cell with a distribution that is neither
\* uniform nor one-hot
C2_Witness ==
    /\ RealStep
    /\ iteration = 2
    /\ \E c \in Cells :
          /\ probabilities[c] # pre.probabilities[c]
          /\ \A k \in 1 .. GridSize :
                probabilities[c][k] \notin {Zero, One, Rat(1, GridSize)}

\* C3: a step() call leaves every clamped cell's distribution as it was and
\* leaves the cell clamped (so any run of consecutive step() calls does).
C3_ClampedInvariance ==
    op.name = "step" =>
        \A c \in pre.clamped :
            /\ c \in clamped
            /\ probabilities[c] = pre.probabilities[c]

\* a real step that changed some non-clamped cell while a clamped cell with a
\* clamped peer holding the same value was present
C3_Witness ==
    /\ RealStep
    /\ probabilities # pre.probabilities
    /\ \E c \in pre.clamped : \E d \in Peers(c) \cap pre.clamped :
          ClampedValue(pre, c) = ClampedValue(pre, d)

\* C4: a step() call made while is_converged is true returns 0.0 and changes
\* no distribution, nor the iteration counter, the clamped set or the flag.
C4_ConvergedStepIsIdle ==
    (op.name = "step" /\ pre.is_converged) =>
        /\ ret = Zero
        /\ probabilities = pre.probabilities
        /\ iteration = pre.iteration
        /\ clamped = pre.clamped
        /\ is_converged = pre.is_converged

\* step() was called on a converged engine whose clues had been edited since,
\* so that a round of the update rule would have changed a cell
C4_Witness ==
    /\ op.name = "step"
    /\ pre.is_converged
    /\ \E c \in Cells \ pre.clamped : RuleNext(pre, c) # pre.probabilities[c]

\* C5: once is_converged is true, no call other than reset() or initialize()
\* makes it false.
C5_Latching ==
    (pre.is_converged /\ op.name \notin {"init", "reset", "initialize"})
        => is_converged

\* set_clue was called on a converged engine and the flag is still set
C5_Witness ==
    /\ pre.is_converged
    /\ op.name = "set_clue"
    /\ is_converged

\* the (probabilities, clamped, iteration, is_converged) of a freshly
\* constructed engine
FreshState ==
    [probabilities |-> [c \in Cells |-> [k \in 1 .. GridSize |-> Rat(1, GridSize)]],
     clamped |-> {}, iteration |-> 0, is_converged |-> FALSE]

\* the same four fields of the current engine
CurrentState ==
    [probabilities |-> probabilities, clamped |-> clamped,
     iteration |-> iteration, is_converged |-> is_converged]

\* C6: after reset() the distributions, the clamped set, the iteration
\* counter and the convergence flag are those of a freshly constructed engine.
C6_ResetIsFresh == op.name = "reset" => CurrentState = FreshState

\* reset() was called on a converged engine with clues, a non-zero iteration
\* counter and a non-uniform non-clamped cell
C6_Witness ==
    /\ op.name = "reset"
    /\ pre.is_converged
    /\ pre.clamped # {}
    /\ pre.iteration > 0
    /\ \E c \in Cells \ pre.clamped : pre.probabilities[c] # Uniform

\* C7 (as claimed): initialize() makes every cell uniform, empties the
\* clamped set, sets iteration to 0 and clears is_converged.
C7_InitializeClearsAll == op.name = "initialize" => CurrentState = FreshState

\* C8 (as claimed): every clamped cell's distribution is one-hot.
C8_ClampedOneHot == \A c \in clamped : IsOneHot(probabilities[c])

\* C9 (as claimed): remove_clue on a cell that is not clamped changes no
\* distribution, nor the clamped set, iteration or is_converged.
C9_RemoveUnclampedNoOp ==
    (op.name = "remove_clue" /\ <<op.row, op.col>> \notin pre.clamped)
        => CurrentState = [probabilities |-> pre.probabilities,
                           clamped |-> pre.clamped,
                           iteration |-> pre.iteration,
                           is_converged |-> pre.is_converged]

\* C10: after a step() from a non-converged state every non-clamped cell
\* holds the update rule's result on the pre-step engine, whatever the other
\* cells' new distributions are.
C10_Simultaneous ==
    RealStep =>
        \A c \in Cells \ pre.clamped : probabilities[c] = RuleNext(pre, c)

\* a real step in which a cell and an earlier-processed non-clamped peer of
\* it both changed, and the cell's result differs from what the rule gives on
\* the post-step distributions
C10_Witness ==
    /\ RealStep
    /\ \E c \in Cells \ pre.clamped : \E d \in Peers(c) \ pre.clamped :
          /\ probabilities[d] # pre.probabilities[d]
          /\ probabilities[c] # pre.probabilities[c]
          /\ probabilities[c] # RuleNext([pre EXCEPT !.probabilities = probabilities], c)

(* ------------------------- module-level adapter ----------------------- *)

\* bound on the settling rounds driven through the adapter
MaxApiIter == 1

\* arguments the adapter passes through unchecked: the first two cells of
\* row 0 and one cell below the grid, the values around 1 .. grid_size, and
\* one strength above 1
ArgCells == {<<0, 0>>, <<0, 1>>, <<GridSize, 0>>}
ArgValues == 0 .. GridSize + 1
ArgStrengths == {Rat(3, 2)}

\* json.dumps({'error': 'Network not initialized'})
ErrorResult == [error |-> "Network not initialized"]

\* get_grid(): the most likely value of every cell of the grid
get_grid(self) == [c \in Cells |-> get_most_likely_value(self, c[1], c[2]).value]

\* to_json(): the exported state
to_json(self) ==
    [grid_size |-> GridSize,
     iteration |-> self.iteration,
     is_converged |-> self.is_converged,
     probabilities |-> self.probabilities,
     clamped |-> self.clamped,
     grid |-> get_grid(self)]

\* step(): result = json.loads(to_json()); result['max_change'] = max_change
WithMaxChange(state, max_change) ==
    [grid_size |-> state.grid_size,
     iteration |-> state.iteration,
     is_converged |-> state.is_converged,
     probabilities |-> state.probabilities,
     clamped |-> state.clamped,
     grid |-> state.grid,
     max_change |-> max_change]

\* the state before the first create_network: there is no engine object, the
\* engine's fields carry no meaning until create_network assigns them
InitApi ==
    /\ network = NotCreated
    /\ result = NoResult
    /\ probabilities = <<>>
    /\ clamped = {}
    /\ iteration = 0
    /\ is_converged = FALSE
    /\ inhibition_strength = Zero
    /\ op = [name |-> "init"]
    /\ ret = None
    /\ exc = NoException
    /\ pre = Self

\* _network = NetworkSettling(grid_size); return _network.to_json()
create_network ==
    /\ pre' = Self
    /\ op' = [name |-> "create_network"]
    /\ ret' = None
    /\ exc' = NoException
    /\ network' = Created
    /\ probabilities' = [c \in Cells |-> Uniform]
    /\ clamped' = {}
    /\ iteration' = 0
    /\ is_converged' = FALSE
    /\ inhibition_strength' = DefaultStrength
    /\ result' = to_json(Self')

\* variant of the adapter's test that never sees a missing engine
network_is_None_never == FALSE

\* if _network is None
network_is_None == network = NotCreated

\* return json.dumps({'error': 'Network not initialized'})
ReturnError(call) ==
    /\ pre' = Self
    /\ op' = call
    /\ ret' = None
    /\ exc' = NoException
    /\ result' = ErrorResult
    /\ UNCHANGED <<fields, network>>

\* a method call on None raises AttributeError
RaiseOnNone(call) ==
    /\ pre' = Self
    /\ op' = call
    /\ ret' = None
    /\ exc' = "AttributeError"
    /\ result' = NoResult
    /\ UNCHANGED <<fields, network>>

\* the adapter function's value: to_json() after the method returned, no
\* value when the method raised
Returned == IF exc' = NoException THEN to_json(Self') ELSE NoResult

api_set_clue(row, col, value) ==
    LET call == [name |-> "set_clue", row |-> row, col |-> col, value |-> value]
    IN  IF network_is_None THEN ReturnError(call)
        ELSE IF network = NotCreated THEN RaiseOnNone(call)
        ELSE /\ set_clue(row, col, value)
             /\ result' = Returned
             /\ UNCHANGED network

api_remove_clue(row, col) ==
    LET call == [name |-> "remove_clue", row |-> row, col |-> col]
    IN  IF network_is_None THEN ReturnError(call)
        ELSE IF network = NotCreated THEN RaiseOnNone(call)
        ELSE /\ remove_clue(row, col)
             /\ result' = Returned
             /\ UNCHANGED network

api_step ==
    LET call == [name |-> "step"]
    IN  IF network_is_None THEN ReturnError(call)
        ELSE IF network = NotCreated THEN RaiseOnNone(call)
        ELSE /\ AlreadyConverged(Self) \/ iteration < MaxApiIter
             /\ step
             /\ result' = WithMaxChange(to_json(Self'), ret')
             /\ UNCHANGED network

api_reset ==
    LET call == [name |-> "reset"]
    IN  IF network_is_None THEN ReturnError(call)
        ELSE IF network = NotCreated THEN RaiseOnNone(call)
        ELSE /\ reset
             /\ result' = Returned
             /\ UNCHANGED network

api_set_inhibition(strength) ==
    LET call == [name |-> "set_inhibition_strength", strength |-> strength]
    IN  IF network_is_None THEN ReturnError(call)
        ELSE IF network = NotCreated THEN RaiseOnNone(call)
        ELSE /\ set_inhibition_strength(strength)
             /\ result' = Returned
             /\ UNCHANGED network

api_get_state ==
    LET call == [name |-> "get_state"]
    IN  IF network_is_None THEN ReturnError(call)
        ELSE IF network = NotCreated THEN RaiseOnNone(call)
        ELSE /\ pre' = Self
             /\ op' = call
             /\ ret' = None
             /\ exc' = NoException
             /\ result' = to_json(Self)
             /\ UNCHANGED <<fields, network>>

ApiSetClue == \E c \in ArgCells, value \in ArgValues : api_set_clue(c[1], c[2], value)

ApiRemoveClue == \E c \in ArgCells : api_remove_clue(c[1], c[2])

ApiSetInhibition == \E strength \in ArgStrengths : api_set_inhibition(strength)

\* the functions the host page calls
NextApi ==
    \/ create_network
    \/ ApiSetClue
    \/ ApiRemoveClue
    \/ api_step
    \/ api_reset
    \/ ApiSetInhibition
    \/ api_get_state

SpecApi == InitApi /\ [][NextApi]_vars

\* the adapter functions that need an engine
ApiCalls == {"set_clue", "remove_clue", "step", "reset",
             "set_inhibition_strength", "get_state"}

\* C12: while no engine has been created each of set_clue, remove_clue, step,
\* reset, set_inhibition and get_state returns {"error": "Network not
\* initialized"} without raising and leaves the engine absent; once
\* create_network has been called none of them returns that error.
C12_NotInitialized ==
    [][ op'.name \in ApiCalls =>
          IF network = NotCreated
          THEN /\ result' = ErrorResult
               /\ exc' = NoException
               /\ network' = NotCreated
          ELSE result' # ErrorResult ]_vars

\* step called before create_network has answered with the error
C12_Witness ==
    /\ op.name = "step"
    /\ network = NotCreated
    /\ result = ErrorResult
    /\ exc = NoException

\* a set_clue call on an existing engine whose value is outside 1..grid_size
\* or whose cell is outside the grid
InvalidSetClue ==
    /\ op.name = "set_clue"
    /\ network = Created
    /\ \/ op.value \notin 1 .. GridSize
       \/ op.row \notin Idx
       \/ op.col \notin Idx

\* C13: set_clue with a value outside 1..grid_size, or a row or column
\* outside 0..grid_size-1, fails with an error and leaves every distribution
\* and the clamped set unchanged.
C13_InvalidArgument ==
    InvalidSetClue =>
        /\ exc # NoException
        /\ probabilities = pre.probabilities
        /\ clamped = pre.clamped

\* every cell is clamped and one-hot, and no value occurs twice in a row or
\* a column: the clues are a Latin square
FullLatinSquare(s) ==
    /\ s.clamped = Cells
    /\ \A c \in Cells : IsOneHot(s.probabilities[c])
    /\ \A c \in Cells : \A d \in Peers(c) : s.probabilities[c] # s.probabilities[d]

\* C11: when every cell is clamped and the clues are a Latin square, step()
\* returns 0.0 and changes no distribution, is_converged is true after it and
\* is_valid_solution() is true.
C11_FullGrid ==
    (op.name = "step" /\ FullLatinSquare(pre)) =>
        /\ ret = Zero
        /\ probabilities = pre.probabilities
        /\ is_converged
        /\ is_valid_solution(Self)

\* the first step() on a fully clamped Latin square, not yet converged
C11_Witness ==
    /\ op.name = "step"
    /\ FullLatinSquare(pre)
    /\ ~pre.is_converged
    /\ iteration = 1

\* C14: set_inhibition_strength(s) stores min(1, max(0, s)), so the stored
\* strength is in [0,1] in every reachable state, and the call changes no
\* distribution, clamped membership, iteration or convergence flag.
C14_StrengthClamped ==
    /\ ~RLt(inhibition_strength, Zero)
    /\ ~RLt(One, inhibition_strength)
    /\ op.name = "set_inhibition_strength" =>
          /\ inhibition_strength = RMin(One, RMax(Zero, op.strength))
          /\ probabilities = pre.probabilities
          /\ clamped = pre.clamped
          /\ iteration = pre.iteration
          /\ is_converged = pre.is_converged

\* set_inhibition_strength(1.5) on an engine that has clues and has stepped
C14_Witness ==
    /\ op.name = "set_inhibition_strength"
    /\ op.strength = Rat(3, 2)
    /\ inhibition_strength = One
    /\ clamped # {}
    /\ iteration > 0

\* the lowest index attaining the maximum of a distribution
MostLikelyIndex(probs) ==
    CHOOSE i \in 1 .. GridSize :
        /\ \A j \in 1 .. GridSize : ~RLt(probs[i], probs[j])
        /\ \A j \in 1 .. (i - 1) : RLt(probs[j], probs[i])

\* every cell's most-likely probability is at least 0.9 and the most-likely
\* values are pairwise distinct in each row and in each column
ConfidentLatin(s) ==
    /\ \A c \in Cells :
          LET probs == s.probabilities[c]
          IN  ~RLt(probs[MostLikelyIndex(probs)], Rat(9, 10))
    /\ \A c \in Cells : \A d \in Peers(c) :
          MostLikelyIndex(s.probabilities[c]) # MostLikelyIndex(s.probabilities[d])

\* C15: is_valid_solution() returns true if and only if every cell's
\* most-likely probability is at least 0.9 and the most-likely values (lowest
\* index attaining the maximum, plus 1) are pairwise distinct in each row and
\* in each column; it changes no state.
C15_ValidSolution ==
    op.name = "is_valid_solution" =>
        /\ ret <=> ConfidentLatin(pre)
        /\ Self = pre

\* is_valid_solution() answered true on a grid with a settled non-clamped cell
C15_Witness ==
    /\ op.name = "is_valid_solution"
    /\ ret
    /\ clamped # Cells
    /\ iteration > 0

\* the largest member of a non-empty set of rationals
RSetMax(S) == CHOOSE m \in S : \A x \in S : ~RLt(m, x)

\* the largest |new - old| over all non-clamped cells and all slots between
\* engine states s and t, 0 when no cell is non-clamped
LargestChange(s, t) ==
    RSetMax({Zero} \cup
            {RAbs(RSub(t.probabilities[c][v], s.probabilities[c][v])) :
                c \in Cells \ s.clamped, v \in 1 .. GridSize})

\* C16: for a step() from a non-converged state the returned max_change is
\* the maximum over all non-clamped cells and slots of |new - old| (0.0 when
\* no cell is non-clamped), iteration grows by exactly 1, and is_converged is
\* true afterwards if and only if max_change < 0.001.
C16_MaxChange ==
    RealStep =>
        /\ ret = LargestChange(pre, Self)
        /\ iteration = pre.iteration + 1
        /\ is_converged <=> RLt(ret, Rat(1, 1000))

\* a second step() that moved some cell and did not converge
C16_Witness ==
    /\ RealStep
    /\ iteration = 2
    /\ RLt(Zero, ret)
    /\ ~is_converged
    /\ clamped # {}

\* engine s has taken no round yet and holds nothing but its clues: every
\* clamped cell is one-hot, every other cell uniform
Seeded(s) ==
    /\ s.iteration = 0
    /\ ~s.is_converged
    /\ \A c \in Cells :
          IF c \in s.clamped
          THEN IsOneHot(s.probabilities[c])
          ELSE \A v \in 1 .. GridSize : s.probabilities[c][v] = Rat(1, GridSize)

\* the values clamped in the peers of B
TakenValues(s, B) ==
    {v \in 1 .. GridSize :
        \E A \in Peers(B) \cap s.clamped : s.probabilities[A][v] = One}

C18_NonNegative ==
    /\ \A c \in DOMAIN probabilities : \A v \in 1 .. GridSize :
          /\ ~RLt(probabilities[c][v], Zero)
          /\ ~RLt(One, probabilities[c][v])
    /\ ~RLt(inhibition_strength, Zero)
    /\ ~RLt(One, inhibition_strength)
    /\ \A B \in Cells \ clamped : \A v \in 1 .. GridSize :
          LET inhibition == calculate_inhibition(Self, B[1], B[2], v - 1)
          IN  /\ ~RLt(inhibition, Zero)
              /\ ~RLt(One, inhibition)
              /\ ~RLt(RMul(probabilities[B][v],
                           RSub(One, RMul(inhibition, inhibition_strength))),
                      Zero)

\* after a round at full strength some cell faces peers that all believe in
\* the same value: inhibition 1, unnormalized value 0
C18_Witness ==
    /\ RealStep
    /\ inhibition_strength = One
    /\ \E B \in Cells \ clamped : \E v \in 1 .. GridSize :
          /\ calculate_inhibition(Self, B[1], B[2], v - 1) = One
          /\ RLt(Zero, probabilities[B][v])

\* C19: a call that is not reset, initialize or remove_clue on the cell
\* leaves a non-clamped cell's probability 0.0 for v at 0.0, unless it is a
\* step() in which all the cell's unnormalized entries are 0 (uniform
\* fallback); so a candidate struck by a clue stays struck after the clue is
\* removed.
C19_NotRestored ==
    \A B \in Cells \ (pre.clamped \cup clamped) : \A v \in 1 .. GridSize :
        ( /\ pre.probabilities[B][v] = Zero
          /\ op.name \notin {"init", "reset", "initialize"}
          /\ ~(op.name = "remove_clue" /\ <<op.row, op.col>> = B) )
        => \/ probabilities[B][v] = Zero
           \/ RealStep /\ AllSuppressed(pre, B)

\* a step() after the clue that struck v from B has been removed: no clamped
\* peer holds v any more, B is not suppressed, and B's 0.0 for v stays
C19_Witness ==
    /\ RealStep
    /\ \E B \in Cells \ pre.clamped : \E v \in 1 .. GridSize :
          /\ pre.probabilities[B][v] = Zero
          /\ ~RuleImpossible(pre, B, v)
          /\ ~AllSuppressed(pre, B)
          /\ probabilities[B][v] = Zero

\* C20: reset() and initialize() leave the stored inhibition_strength
\* unchanged (grid_size and convergence_threshold are never assigned after
\* construction), so a strength set before reset() governs the steps after.
C20_SettingsKept ==
    /\ op.name \in {"reset", "initialize"} =>
          inhibition_strength = pre.inhibition_strength
    /\ RealStep =>
          /\ inhibition_strength = pre.inhibition_strength
          /\ \A B \in Cells \ pre.clamped : probabilities[B] = RuleNext(pre, B)

\* reset() on an engine whose strength had been set to 1.0
C20_Witness ==
    /\ op.name = "reset"
    /\ pre.inhibition_strength = One
    /\ inhibition_strength = One
    /\ pre.iteration > 0

=============================================================================
